---- MODULE Spec2Model ----
(***************************************************************************)
(* A model of sht/mask_deconvolution.py: the MaskDeconvolution class, which *)
(* builds the mode-coupling matrix of a window function, bins it, inverts   *)
(* the binned matrix and applies the inverse to binned spectra.             *)
(*                                                                          *)
(* Numbers.  The code works in double precision; the model works in exact   *)
(* rational arithmetic.  A rational is a pair <<n, d>> with d > 0 and       *)
(* gcd(n, d) = 1.  The constant 4*pi is held as the rational FourPi.        *)
(* Arrays keep the source's 0-based indices: a vector of length n is a      *)
(* function on 0..n-1, a matrix is a vector of row vectors.                 *)
(*                                                                          *)
(* Three specifications share the variables:                                *)
(*   Spec         an instance after __init__, under any sequence of         *)
(*                __call__ and convolve_theory_Cls, each a single step;     *)
(*   SpecGetM     one run of get_M, one loop iteration per step;            *)
(*   SpecBinning  one run of binning_matrix, one loop iteration per step.   *)
(* A method that raises leaves the name of the exception as its outcome.    *)
(***************************************************************************)
EXTENDS Integers, Sequences, FiniteSets, TLC

VARIABLES
    \* the fields of a MaskDeconvolution instance
    lmax, W_l, Mll, lperBin, bins, bins_no_weight, binned_ells, Mbb_inv,
    \* the outcome of the last method call on the instance
    result,
    \* one run of get_M, loop iteration by loop iteration
    gdebug, gl1, gl2, gl3, gM, gpc, gcall,
    \* one run of binning_matrix, loop iteration by loop iteration
    btype, bstep, bl0, bl1, bii, bbins, bpc

objvars == <<lmax, W_l, Mll, lperBin, bins, bins_no_weight, binned_ells, Mbb_inv>>
getmvars == <<gdebug, gl1, gl2, gl3, gM, gpc, gcall>>
binvars == <<btype, bstep, bl0, bl1, bii, bbins, bpc>>
vars == <<objvars, result, getmvars, binvars>>

----------------------------------------------------------------------------
(* Bounds of the model.                                                     *)

\* lmax ranges over 0..MaxLmax in the instance and get_M specifications
MaxLmax == 3
\* the supplied window has at most MaxWLen entries
MaxWLen == 2
\* lmax ranges over 0..MaxLmaxBin in the binning_matrix specification
MaxLmaxBin == 7
\* step ranges over 0..MaxStep in the binning_matrix specification
MaxStep == 3

----------------------------------------------------------------------------
(* Exact rational arithmetic, standing for the code's floating point.       *)

Abs(x) == IF x < 0 THEN -x ELSE x

RECURSIVE GCD(_, _)
GCD(a, b) == IF b = 0 THEN a ELSE GCD(b, a % b)

Rat(n, d) ==
    LET s == IF d < 0 THEN -1 ELSE 1
        g == GCD(Abs(n), Abs(d))
    IN  <<(s * n) \div g, (s * d) \div g>>

RInt(n) == <<n, 1>>
RZero == RInt(0)
ROne == RInt(1)

RAdd(a, b) ==
    LET g == GCD(a[2], b[2])
    IN  Rat(a[1] * (b[2] \div g) + b[1] * (a[2] \div g), (a[2] \div g) * b[2])

RMul(a, b) ==
    LET g1 == GCD(Abs(a[1]), b[2])
        g2 == GCD(Abs(b[1]), a[2])
    IN  Rat((a[1] \div g1) * (b[1] \div g2), (a[2] \div g2) * (b[2] \div g1))

RNeg(a) == <<-a[1], a[2]>>
RSub(a, b) == RAdd(a, RNeg(b))
\* 1/a, for a # 0
RInv(a) == IF a[1] > 0 THEN <<a[2], a[1]>> ELSE <<-a[2], -a[1]>>
RDiv(a, b) == RMul(a, RInv(b))

\* sum of f[i] for i in lo..hi
RECURSIVE RSum(_, _, _)
RSum(f, lo, hi) == IF lo > hi THEN RZero ELSE RAdd(f[lo], RSum(f, lo + 1, hi))

\* 4*np.pi, with pi taken as 22/7
FourPi == <<88, 7>>

\* length of a 0-based vector
Len0(v) == Cardinality(DOMAIN v)
\* the numpy array of a Python sequence (1-based in TLA+)
Arr(s) == [i \in 0..(Len(s) - 1) |-> s[i + 1]]

\* np.zeros((nr, nc))
Zeros(nr, nc) == [r \in 0..(nr - 1) |-> [c \in 0..(nc - 1) |-> RZero]]
\* np.dot(A, v) for a matrix A and a vector v of matching length
MatVec(A, v) == [r \in DOMAIN A |-> RSum([c \in DOMAIN v |-> RMul(A[r][c], v[c])], 0, Len0(v) - 1)]
\* np.matmul(v, A) for a vector v and a matrix A with Len0(v) rows
VecMat(v, A) ==
    LET nc == IF Len0(A) = 0 THEN 0 ELSE Len0(A[0])
    IN  [c \in 0..(nc - 1) |-> RSum([r \in DOMAIN v |-> RMul(v[r], A[r][c])], 0, Len0(v) - 1)]
\* np.matmul(A, B)
MatMul(A, B) ==
    LET nc == IF Len0(B) = 0 THEN 0 ELSE Len0(B[0])
    IN  [r \in DOMAIN A |-> [c \in 0..(nc - 1) |->
            RSum([k \in DOMAIN B |-> RMul(A[r][k], B[k][c])], 0, Len0(B) - 1)]]
\* A.T, for a matrix of nc columns
Transpose(A, nc) == [c \in 0..(nc - 1) |-> [r \in DOMAIN A |-> A[r][c]]]
Identity(n) == [r \in 0..(n - 1) |-> [c \in 0..(n - 1) |-> IF r = c THEN ROne ELSE RZero]]

----------------------------------------------------------------------------
(* The Wigner 3j symbol with zero magnetic numbers, from threej000, which   *)
(* is not part of the source at hand.  For l1+l2+l3 = 2g even and           *)
(* |l1-l2| <= l3 <= l1+l2 its square is                                     *)
(*   C(2a,a) C(2b,b) C(2c,c) / ((2g+1) C(2g,g)),  a = g-l1, b = g-l2,       *)
(* c = g-l3, and it is 0 elsewhere.                                         *)

\* the central binomial coefficient C(2n, n)
RECURSIVE CentralBinomial(_)
CentralBinomial(n) ==
    IF n = 0 THEN 1 ELSE (CentralBinomial(n - 1) * 2 * (2 * n - 1)) \div n

Triangle(l1, l2, l3) == Abs(l1 - l2) <= l3 /\ l3 <= l1 + l2
EvenSum(l1, l2, l3) == (l1 + l2 + l3) % 2 = 0

\* self.w3j000(l1,l2,l3)**2
Wigner3jSq(l1, l2, l3) ==
    IF ~(Triangle(l1, l2, l3) /\ EvenSum(l1, l2, l3)) THEN RZero
    ELSE LET g == (l1 + l2 + l3) \div 2
         IN  Rat(CentralBinomial(g - l1) * CentralBinomial(g - l2) * CentralBinomial(g - l3),
                 (2 * g + 1) * CentralBinomial(g))

----------------------------------------------------------------------------
(* __init__: the padded window.                                             *)

\* seeded fault: the window padded to 2*lmax entries, as the docstring has it
PadLenShort(lm, size) == IF 2 * lm - size > 0 THEN 2 * lm - size ELSE 0

\* pad = max(0,2*lmax+1-W_l.size)
PadLen(lm, size) == IF 2 * lm + 1 - size > 0 THEN 2 * lm + 1 - size ELSE 0

\* np.pad(W_l,(0,pad),'constant',constant_values=0), W_l a Python sequence
PadWindow(lm, Wseq) ==
    [l \in 0..(Len(Wseq) + PadLen(lm, Len(Wseq)) - 1) |->
        IF l < Len(Wseq) THEN Wseq[l + 1] ELSE RZero]

----------------------------------------------------------------------------
(* W and get_M.                                                             *)

\* seeded fault: the debug window without its 4*pi
WDebugOne(Wl, l, debug) ==
    IF debug THEN (IF l = 0 THEN ROne ELSE RZero) ELSE Wl[l]

\* W(l, debug), for l an index of the padded window
W(Wl, l, debug) ==
    IF debug THEN (IF l = 0 THEN FourPi ELSE RZero) ELSE Wl[l]

\* range(abs(l1-l2),l1+l2+1): its first value and its (excluded) stop
L3Start(l1, l2) == Abs(l1 - l2)
L3Stop(l1, l2) == l1 + l2 + 1

\* the l3 values the inner loop keeps: those of the range with
\* (l1+l2+l3)%2==0
KeptL3(l1, l2) == {l3 \in L3Start(l1, l2)..(L3Stop(l1, l2) - 1) : EvenSum(l1, l2, l3)}

\* seeded fault: the prefactor taken from the row index instead of the column index
TermRowFactor(Wl, l1, l2, l3, debug) ==
    RMul(RInt((2 * l1 + 1) * (2 * l3 + 1)),
         RMul(Wigner3jSq(l1, l2, l3), W(Wl, l3, debug)))

\* the value added to M[l1,l2] for one l3
Term(Wl, l1, l2, l3, debug) ==
    RMul(RInt((2 * l2 + 1) * (2 * l3 + 1)),
         RMul(Wigner3jSq(l1, l2, l3), W(Wl, l3, debug)))

\* M /= 4*np.pi, entry by entry
DivFourPi(x) == RDiv(x, FourPi)

\* get_M(debug), computed in one go
get_M(lm, Wl, debug) ==
    [l1 \in 0..lm |-> [l2 \in 0..lm |->
        DivFourPi(RSum([l3 \in 0..(2 * lm) |->
                           IF l3 \in KeptL3(l1, l2) THEN Term(Wl, l1, l2, l3, debug)
                           ELSE RZero], 0, 2 * lm))]]

----------------------------------------------------------------------------
(* init_binning, bin_matrix, bin_Cls, decouple_Cls.                         *)

\* an attribute that has not been assigned, and one that has
Unset(v) == [set |-> FALSE, val |-> v]
Set(v) == [set |-> TRUE, val |-> v]

\* row[i:i+w] = x, for a row of n entries (the slice is clipped to the row)
SliceAssign(row, i, w, x) ==
    [l \in DOMAIN row |-> IF i <= l /\ l < i + w THEN x ELSE row[l]]

\* The loop of init_binning from offset i on, over bins b and bins_no_weight
\* nw of nb rows.  Indexing row i // w of an array of nb rows fails when
\* i // w >= nb; the assignment to bins comes first.
RECURSIVE BinLoop(_, _, _, _, _, _)
BinLoop(b, nw, i, w, nb, lm) ==
    IF i > lm THEN [status |-> "ok", bins |-> b, bins_no_weight |-> nw]
    ELSE IF i \div w >= nb
         THEN [status |-> "IndexError", bins |-> b, bins_no_weight |-> nw]
         ELSE BinLoop([b EXCEPT ![i \div w] = SliceAssign(@, i, w, Rat(1, w))],
                      [nw EXCEPT ![i \div w] = SliceAssign(@, i, w, ROne)],
                      i + w, w, nb, lm)

\* np.arange(n)
Arange(n) == [l \in 0..(n - 1) |-> RInt(l)]

\* seeded fault: the bin centres taken over the multipoles 1..lmax+1
BinnedEllsFromOne(b, lm) == MatVec(b, [l \in 0..lm |-> RInt(l + 1)])

\* np.dot(self.bins, np.arange(self.lmax+1))
BinnedElls(b, lm) == MatVec(b, Arange(lm + 1))

\* init_binning with self.lperBin = w.  old holds the three attributes it
\* assigns, as they were before.  The result gives them as they are after.
init_binning(lm, w, old) ==
    IF w = 0
    THEN \* (self.lmax+1) // self.lperBin
         [status |-> "ZeroDivisionError", bins |-> old.bins,
          bins_no_weight |-> old.bins_no_weight, binned_ells |-> old.binned_ells]
    ELSE LET nb == (lm + 1) \div w
             z == Zeros(nb, lm + 1)
             lp == BinLoop(z, z, 0, w, nb, lm)
         IN  IF lp.status # "ok"
             THEN [status |-> lp.status, bins |-> Set(lp.bins),
                   bins_no_weight |-> Set(lp.bins_no_weight),
                   binned_ells |-> old.binned_ells]
             ELSE LET b == [lp.bins EXCEPT ![0][0] = RZero]
                      nw == [lp.bins_no_weight EXCEPT ![0][0] = RZero]
                  IN  [status |-> "ok", bins |-> Set(b), bins_no_weight |-> Set(nw),
                       binned_ells |-> Set(BinnedElls(b, lm))]

\* seeded fault: the weighted operator on both sides
bin_matrix_weighted(b, nw, M, lm) == MatMul(MatMul(b, M), Transpose(b, lm + 1))

\* bin_matrix(M)
bin_matrix(b, nw, M, lm) == MatMul(MatMul(b, M), Transpose(nw, lm + 1))

\* bin_Cls(Cl), for Cl of length lmax+1
bin_Cls(b, Cl) == MatVec(b, Cl)

\* decouple_Cls(Minv, Cb), for Cb as long as Minv has rows
decouple_Cls(Minv, Cb) == VecMat(Cb, Minv)

\* np.linalg.inv(A) for an n x n matrix, by Gauss-Jordan elimination on
\* [A | B]: columns below k are done.  ok is FALSE when A is singular
\* (numpy raises LinAlgError).  Singular means exactly singular: in double
\* precision a matrix with a zero row, as the properties below meet, is
\* detected; one that is singular only up to rounding may not be.
RECURSIVE GaussJordan(_, _, _, _)
GaussJordan(A, B, k, n) ==
    IF k = n THEN [ok |-> TRUE, inv |-> B]
    ELSE LET piv == {r \in k..(n - 1) : A[r][k] # RZero}
         IN  IF piv = {} THEN [ok |-> FALSE, inv |-> B]
             ELSE LET p == CHOOSE r \in piv : \A q \in piv : r <= q
                      sw(X) == [X EXCEPT ![k] = X[p], ![p] = X[k]]
                      A1 == sw(A)
                      B1 == sw(B)
                      f == RInv(A1[k][k])
                      rowA == [c \in 0..(n - 1) |-> RMul(A1[k][c], f)]
                      rowB == [c \in 0..(n - 1) |-> RMul(B1[k][c], f)]
                      A2 == [r \in 0..(n - 1) |-> IF r = k THEN rowA
                             ELSE [c \in 0..(n - 1) |->
                                      RSub(A1[r][c], RMul(A1[r][k], rowA[c]))]]
                      B2 == [r \in 0..(n - 1) |-> IF r = k THEN rowB
                             ELSE [c \in 0..(n - 1) |->
                                      RSub(B1[r][c], RMul(A1[r][k], rowB[c]))]]
                  IN  GaussJordan(A2, B2, k + 1, n)

LinalgInv(A) == GaussJordan(A, Identity(Len0(A)), 0, Len0(A))

----------------------------------------------------------------------------
(* The inputs the model draws from.                                         *)

\* window values: 0 and the full-sky value 4*pi
WVals == {RZero, FourPi}

\* the windows handed to __init__: every sequence of at most MaxWLen values
Windows == UNION {[1..n -> WVals] : n \in 0..MaxWLen}

\* the windows of the get_M specification also hold 1 and a negative value
WValsGetM == WVals \cup {ROne, RInt(-2)}
WindowsGetM == UNION {[1..n -> WValsGetM] : n \in 0..MaxWLen}

\* the spectra of length n handed to __call__ and convolve_theory_Cls: the
\* ramp 1, 2, ..., n and the spectrum that is 1 at the top multipole only
Spectra(n) ==
    {[l \in 0..(n - 1) |-> RInt(l + 1)],
     [l \in 0..(n - 1) |-> IF l = n - 1 THEN ROne ELSE RZero]}

\* spectra of the right length and one short
SpectraFor(lm) == Spectra(lm + 1) \cup {[l \in 0..(lm - 1) |-> RInt(l + 1)]}

\* bin widths handed to __call__
Widths(lm) == 0..(lm + 2)

----------------------------------------------------------------------------
(* The instance: __init__, __call__, convolve_theory_Cls.                   *)

NoVec == <<>>

Outcome(op, status, w, arg, ells, out) ==
    [op |-> op, status |-> status, w |-> w, arg |-> arg, ells |-> ells, out |-> out]

\* the variables of the two loop specifications, at rest
GetMIdle ==
    /\ gdebug = FALSE /\ gl1 = 0 /\ gl2 = 0 /\ gl3 = 0
    /\ gM = NoVec /\ gpc = "idle" /\ gcall = NoVec

BinIdle ==
    /\ btype = "linear" /\ bstep = 0 /\ bl0 = 0 /\ bl1 = 0 /\ bii = 0
    /\ bbins = NoVec /\ bpc = "idle"

\* the state after __init__(lmax, W_l): lperBin, bins, bins_no_weight,
\* binned_ells and Mbb_inv are not assigned
Init ==
    /\ lmax \in 0..MaxLmax
    /\ \E Wseq \in Windows : W_l = PadWindow(lmax, Wseq)
    /\ Mll = get_M(lmax, W_l, FALSE)
    /\ lperBin = Unset(0)
    /\ bins = Unset(NoVec)
    /\ bins_no_weight = Unset(NoVec)
    /\ binned_ells = Unset(NoVec)
    /\ Mbb_inv = Unset(NoVec)
    /\ result = Outcome("init", "ok", 0, NoVec, NoVec, NoVec)
    /\ GetMIdle
    /\ BinIdle

\* seeded fault: a spectrum that is too short is let through
LenContractAtMost(n, lm) == n <= lm + 1

\* assert (len(C_l) == self.lmax + 1)
LenContract(n, lm) == n = lm + 1

\* Lines 61-64 of __call__ for self.lperBin = w: init_binning, then the
\* inverse of the binned matrix.  They do not read C_l.
BinAndInvert(w) ==
    LET ib == init_binning(lmax, w,
                  [bins |-> bins, bins_no_weight |-> bins_no_weight,
                   binned_ells |-> binned_ells])
    IN  [ib |-> ib,
         inv |-> IF ib.status = "ok"
                 THEN LinalgInv(bin_matrix(ib.bins.val, ib.bins_no_weight.val, Mll, lmax))
                 ELSE [ok |-> FALSE, inv |-> NoVec]]

\* __call__(C_l, lperBin), with bi = BinAndInvert(lperBin)
Call(C_l, w, bi) ==
    IF ~LenContract(Len0(C_l), lmax)
    THEN /\ result' = Outcome("call", "AssertionError", w, C_l, NoVec, NoVec)
         /\ UNCHANGED objvars
    ELSE /\ lperBin' = Set(w)
         /\ bins' = bi.ib.bins
         /\ bins_no_weight' = bi.ib.bins_no_weight
         /\ binned_ells' = bi.ib.binned_ells
         /\ UNCHANGED <<lmax, W_l, Mll>>
         /\ IF bi.ib.status # "ok"
            THEN /\ result' = Outcome("call", bi.ib.status, w, C_l, NoVec, NoVec)
                 /\ UNCHANGED Mbb_inv
            ELSE IF ~bi.inv.ok
            THEN /\ result' = Outcome("call", "LinAlgError", w, C_l, NoVec, NoVec)
                 /\ UNCHANGED Mbb_inv
            ELSE /\ Mbb_inv' = Set(bi.inv.inv)
                 /\ IF Len0(C_l) # lmax + 1
                    THEN \* np.dot of mismatched shapes in bin_Cls
                         result' = Outcome("call", "ValueError", w, C_l, NoVec, NoVec)
                    ELSE result' =
                           Outcome("call", "ok", w, C_l, bi.ib.binned_ells.val,
                                   decouple_Cls(bi.inv.inv, bin_Cls(bi.ib.bins.val, C_l)))

\* convolve_theory_Cls(Clt)
Convolve(Clt) ==
    /\ UNCHANGED objvars
    /\ IF ~Mbb_inv.set
       THEN \* self.Mbb_inv is read before it was ever assigned
            result' = Outcome("convolve", "AttributeError", 0, Clt, NoVec, NoVec)
       ELSE IF Len0(Clt) # lmax + 1
       THEN result' = Outcome("convolve", "AssertionError", 0, Clt, NoVec, NoVec)
       ELSE LET Cb == bin_Cls(bins.val, MatVec(Mll, Clt))
            IN  IF Len0(Cb) # Len0(Mbb_inv.val)
                THEN \* np.matmul of mismatched shapes in decouple_Cls
                     result' = Outcome("convolve", "ValueError", 0, Clt, NoVec, NoVec)
                ELSE result' = Outcome("convolve", "ok", 0, Clt, NoVec,
                                       decouple_Cls(Mbb_inv.val, Cb))

CallStep ==
    /\ \E w \in Widths(lmax) :
          LET bi == BinAndInvert(w)
          IN  \E C_l \in SpectraFor(lmax) : Call(C_l, w, bi)
    /\ UNCHANGED <<getmvars, binvars>>

ConvolveStep ==
    /\ \E Clt \in SpectraFor(lmax) : Convolve(Clt)
    /\ UNCHANGED <<getmvars, binvars>>

Next == CallStep \/ ConvolveStep

Spec == Init /\ [][Next]_vars

----------------------------------------------------------------------------
(* One run of get_M(debug), an iteration of the innermost loop per step.    *)
(* gl1, gl2, gl3 are the loop variables of the iteration to run next, gM is *)
(* the matrix M, gcall lists the Wigner symbol and the window index the     *)
(* last iteration evaluated (none when the parity test skipped the term).   *)

InitGetM ==
    /\ lmax \in 0..MaxLmax
    /\ \E Wseq \in WindowsGetM : W_l = PadWindow(lmax, Wseq)
    /\ Mll = NoVec
    /\ lperBin = Unset(0)
    /\ bins = Unset(NoVec)
    /\ bins_no_weight = Unset(NoVec)
    /\ binned_ells = Unset(NoVec)
    /\ Mbb_inv = Unset(NoVec)
    /\ result = Outcome("get_M", "running", 0, NoVec, NoVec, NoVec)
    /\ gdebug \in BOOLEAN
    /\ gl1 = 0 /\ gl2 = 0 /\ gl3 = L3Start(0, 0)
    /\ gM = Zeros(lmax + 1, lmax + 1)
    /\ gpc = "loop"
    /\ gcall = <<>>
    /\ BinIdle

\* the loop variables after the iteration (gl1, gl2, gl3)
GetMAdvance ==
    IF gl3 + 1 < L3Stop(gl1, gl2)
    THEN /\ gl3' = gl3 + 1
         /\ UNCHANGED <<gl1, gl2>>
         /\ gpc' = "loop"
    ELSE IF gl2 < lmax
    THEN /\ gl2' = gl2 + 1
         /\ gl3' = L3Start(gl1, gl2 + 1)
         /\ UNCHANGED gl1
         /\ gpc' = "loop"
    ELSE IF gl1 < lmax
    THEN /\ gl1' = gl1 + 1
         /\ gl2' = 0
         /\ gl3' = L3Start(gl1 + 1, 0)
         /\ gpc' = "loop"
    ELSE /\ UNCHANGED <<gl1, gl2, gl3>>
         /\ gpc' = "divide"

\* one iteration of `for l3 in range(...)`
GetMIter ==
    /\ gpc = "loop"
    /\ IF EvenSum(gl1, gl2, gl3)
       THEN /\ gcall' = <<[l1 |-> gl1, l2 |-> gl2, l3 |-> gl3, windex |-> gl3]>>
            /\ IF ~gdebug /\ gl3 \notin DOMAIN W_l
               THEN \* self.W_l[l] out of range
                    /\ gpc' = "IndexError"
                    /\ UNCHANGED <<gl1, gl2, gl3, gM>>
               ELSE /\ gM' = [gM EXCEPT ![gl1][gl2] =
                                 RAdd(@, Term(W_l, gl1, gl2, gl3, gdebug))]
                    /\ GetMAdvance
       ELSE /\ gcall' = <<>>
            /\ UNCHANGED gM
            /\ GetMAdvance
    /\ UNCHANGED <<objvars, result, gdebug, binvars>>

\* M /= 4*np.pi; return(M)
GetMDivide ==
    /\ gpc = "divide"
    /\ gM' = [l1 \in DOMAIN gM |-> [l2 \in DOMAIN gM[l1] |-> DivFourPi(gM[l1][l2])]]
    /\ gpc' = "done"
    /\ gcall' = <<>>
    /\ result' = Outcome("get_M", "ok", 0, NoVec, NoVec, NoVec)
    /\ UNCHANGED <<objvars, gdebug, gl1, gl2, gl3, binvars>>

NextGetM == GetMIter \/ GetMDivide

SpecGetM == InitGetM /\ [][NextGetM]_vars

\* the loop returns what get_M, computed in one go, gives
GetMAgrees == gpc = "done" => gM = get_M(lmax, W_l, gdebug)

----------------------------------------------------------------------------
(* One run of binning_matrix(type, step), an iteration of the while loop    *)
(* per step.                                                                *)

BinTypes == {"linear", "sqrt", "cubic"}

\* the least k with k*k >= n: np.ceil(np.sqrt(n)) for an integer n
CeilSqrt(n) == CHOOSE k \in 0..n : k * k >= n /\ (k = 0 \/ (k - 1) * (k - 1) < n)

\* dell(ell), for type 'linear' or 'sqrt' and an integer step
dell(type, step, ell) ==
    IF type = "linear" THEN step ELSE CeilSqrt(4 * ell) + step

\* seeded fault: the loop stops one bin early
LoopCondStrict(l1, Nl) == l1 < Nl

\* while l1<=Nl
LoopCond(l1, Nl) == l1 <= Nl

\* min(l1,Nl)
Min(a, b) == IF a < b THEN a ELSE b

InitBin ==
    /\ lmax \in 0..MaxLmaxBin
    /\ W_l = NoVec
    /\ Mll = NoVec
    /\ lperBin = Unset(0)
    /\ bins = Unset(NoVec)
    /\ bins_no_weight = Unset(NoVec)
    /\ binned_ells = Unset(NoVec)
    /\ Mbb_inv = Unset(NoVec)
    /\ result = Outcome("binning_matrix", "running", 0, NoVec, NoVec, NoVec)
    /\ GetMIdle
    /\ btype \in BinTypes
    /\ bstep \in 0..MaxStep
    /\ bl0 = 0 /\ bl1 = 0 /\ bii = 0
    /\ bbins = NoVec
    /\ bpc = "start"

\* lines 130-140: up to the first test of the while loop
BinStart ==
    /\ bpc = "start"
    /\ IF btype \notin {"linear", "sqrt"}
       THEN /\ bpc' = "RuntimeError"
            /\ UNCHANGED <<bl0, bl1, bii, bbins>>
       ELSE /\ bbins' = Zeros(lmax + 1, lmax + 1)
            /\ bii' = 0
            /\ bl0' = 2
            /\ bl1' = 2 + dell(btype, bstep, 2)
            /\ bpc' = "loop"
    /\ UNCHANGED <<objvars, result, getmvars, btype, bstep>>

\* one iteration of the while loop
BinIter ==
    /\ bpc = "loop"
    /\ LoopCond(bl1, lmax + 1)
    /\ IF bl1 - bl0 = 0
       THEN \* 1/float(l1-l0)
            /\ bpc' = "ZeroDivisionError"
            /\ UNCHANGED <<bl0, bl1, bii, bbins>>
       ELSE IF bii \notin DOMAIN bbins
       THEN /\ bpc' = "IndexError"
            /\ UNCHANGED <<bl0, bl1, bii, bbins>>
       ELSE /\ bbins' = [bbins EXCEPT ![bii] =
                            SliceAssign(@, bl0, Min(bl1, lmax + 1) - bl0,
                                        Rat(1, bl1 - bl0))]
            /\ bl0' = bl1
            /\ bl1' = bl1 + dell(btype, bstep, bl1)
            /\ bii' = bii + 1
            /\ bpc' = "loop"
    /\ UNCHANGED <<objvars, result, getmvars, btype, bstep>>

\* bins = bins[:ii,:]; return(bins)
BinReturn ==
    /\ bpc = "loop"
    /\ ~LoopCond(bl1, lmax + 1)
    /\ bbins' = [r \in 0..(bii - 1) |-> bbins[r]]
    /\ bpc' = "done"
    /\ result' = Outcome("binning_matrix", "ok", 0, NoVec, NoVec, NoVec)
    /\ UNCHANGED <<objvars, getmvars, btype, bstep, bl0, bl1, bii>>

NextBin == BinStart \/ BinIter \/ BinReturn

SpecBinning == InitBin /\ [][NextBin]_vars

----------------------------------------------------------------------------
(* Properties of get_M, under SpecGetM.                                     *)

\* C1 as stated: the matrix get_M returns (for the supplied window) is
\* symmetric, M[l1,l2] = M[l2,l1] for all 0 <= l1, l2 <= lmax.
C1_Symmetric ==
    (gpc = "done" /\ ~gdebug) =>
        \A l1, l2 \in 0..lmax : gM[l1][l2] = gM[l2][l1]

\* C1 amended: the matrix get_M returns satisfies
\* (2*l1+1) * M[l1,l2] = (2*l2+1) * M[l2,l1] for all 0 <= l1, l2 <= lmax;
\* M itself is symmetric only where M[l1,l2] = 0 or l1 = l2.
C1_SymmetricUpToWeights ==
    (gpc = "done" /\ ~gdebug) =>
        \A l1, l2 \in 0..lmax :
            /\ RMul(RInt(2 * l1 + 1), gM[l1][l2]) = RMul(RInt(2 * l2 + 1), gM[l2][l1])
            /\ (gM[l1][l2] = gM[l2][l1]) <=> (l1 = l2 \/ gM[l1][l2] = RZero)

\* a finished run whose matrix has a nonzero off-diagonal entry
C1_Witness ==
    /\ gpc = "done" /\ ~gdebug /\ lmax >= 2
    /\ gM[1][2] # RZero /\ gM[1][2] # gM[2][1]

\* C6: with the debug window, get_M returns the identity matrix: M[i,i] = 1
\* and M[i,j] = 0 for i # j.
C6_DebugIdentity ==
    (gpc = "done" /\ gdebug) =>
        \A i, j \in 0..lmax : gM[i][j] = IF i = j THEN ROne ELSE RZero

\* a finished debug run with lmax at least 2 over a window that is not the
\* full-sky one
C6_Witness ==
    /\ gpc = "done" /\ gdebug /\ lmax >= 2
    /\ W_l[0] # FourPi /\ W_l[1] # RZero

\* C10: every Wigner symbol get_M evaluates has |l1-l2| <= l3 <= l1+l2 and
\* l1+l2+l3 even, and every window index it uses is within 0..2*lmax and
\* within the padded window, which has at least 2*lmax+1 entries.
C10_CallsInRange ==
    /\ Len0(W_l) >= 2 * lmax + 1
    /\ gpc # "IndexError"
    /\ \A i \in DOMAIN gcall :
          /\ Triangle(gcall[i].l1, gcall[i].l2, gcall[i].l3)
          /\ EvenSum(gcall[i].l1, gcall[i].l2, gcall[i].l3)
          /\ 0 <= gcall[i].windex /\ gcall[i].windex <= 2 * lmax
          /\ gcall[i].windex \in DOMAIN W_l

\* the iteration l1 = l2 = lmax, l3 = 2*lmax has just evaluated its term,
\* over a window that had to be padded
C10_Witness ==
    /\ lmax >= 1 /\ ~gdebug
    /\ gcall # <<>> /\ gcall[1].windex = 2 * lmax
    /\ Len0(W_l) = 2 * lmax + 1

----------------------------------------------------------------------------
(* Properties of the instance, under Spec.                                  *)

\* init_binning ran to its end in the last __call__
BinningDone == result.op = "call" /\ result.status \in {"ok", "LinAlgError"}

\* the multipoles of block b for width w
Block(b, w) == (b * w)..((b + 1) * w - 1)

\* C2: for every 1 <= lperBin <= lmax+1, dividing lmax+1 or not,
\* init_binning completes without error and leaves floor((lmax+1)/lperBin)
\* bins, bin b weighting the multipoles b*lperBin..(b+1)*lperBin-1 (but the
\* monopole) and no others.
C2_FloorBins ==
    (/\ result.op = "call" /\ result.status # "AssertionError"
     /\ 1 <= result.w /\ result.w <= lmax + 1) =>
        /\ BinningDone
        /\ Len0(bins.val) = (lmax + 1) \div result.w
        /\ Len0(bins_no_weight.val) = (lmax + 1) \div result.w
        /\ \A b \in DOMAIN bins.val : \A l \in 0..lmax :
              LET in == l \in Block(b, result.w) /\ l # 0
              IN  /\ bins.val[b][l] = IF in THEN Rat(1, result.w) ELSE RZero
                  /\ bins_no_weight.val[b][l] = IF in THEN ROne ELSE RZero

\* C3: convolve_theory_Cls returns a value only if the cached Mbb_inv is the
\* inverse of the coupling matrix binned with the current bins and
\* bins_no_weight.
C3_InverseIsCurrent ==
    (result.op = "convolve" /\ result.status = "ok") =>
        MatMul(bin_matrix(bins.val, bins_no_weight.val, Mll, lmax), Mbb_inv.val)
            = Identity(Len0(bins.val))

\* C4: convolve_theory_Cls on a fresh instance fails with the assertion
\* 'Must call __call__ before convolving theory Cls' and returns nothing.
C4_FreshConvolveAsserts ==
    (result.op = "convolve" /\ ~lperBin.set) =>
        (result.status = "AssertionError" /\ result.out = NoVec)

\* C5: a __call__ with a spectrum whose length is not lmax+1 fails with the
\* length assertion, returns nothing and leaves every field of the instance
\* as it was.
C5_BadLengthRejected ==
    [][(result'.op = "call" /\ Len0(result'.arg) # lmax + 1) =>
          /\ result'.status = "AssertionError"
          /\ result'.ells = NoVec /\ result'.out = NoVec
          /\ UNCHANGED objvars]_vars

\* a short spectrum was rejected on an instance that holds a cached inverse
C5_Witness ==
    /\ result.op = "call" /\ Len0(result.arg) = lmax
    /\ result.status = "AssertionError"
    /\ Mbb_inv.set /\ lmax >= 1

\* the multipoles that carry weight in bin b
Included(b) == {l \in 0..lmax : bins.val[b][l] # RZero}

\* the plain average of a nonempty set of multipoles
Average(S) ==
    Rat(RSum([l \in 0..lmax |-> IF l \in S THEN RInt(l) ELSE RZero], 0, lmax)[1],
        Cardinality(S))

\* C7 as stated: binned_ells[b] is the average of the multipoles that carry
\* nonzero weight in bin b, for every bin that has any.
C7_AverageOfIncluded ==
    BinningDone =>
        \A b \in DOMAIN bins.val :
            Included(b) # {} => binned_ells.val[b] = Average(Included(b))

\* C7 amended: binned_ells[b] = b*lperBin + (lperBin-1)/2, the average of
\* all the multipoles b*lperBin..(b+1)*lperBin-1 of the block.  For b >= 1
\* that is the average of the multipoles carrying weight; for the first bin
\* and lperBin >= 2 it is not: those are 1..lperBin-1, of average lperBin/2.
C7_AverageOfBlock ==
    BinningDone =>
        \A b \in DOMAIN bins.val :
            /\ binned_ells.val[b] = Rat(2 * b * result.w + result.w - 1, 2)
            /\ b >= 1 => binned_ells.val[b] = Average(Included(b))
            /\ (b = 0 /\ result.w >= 2) =>
                  /\ Average(Included(b)) = Rat(result.w, 2)
                  /\ binned_ells.val[b] # Average(Included(b))

\* init_binning has left two bins of width two
C7_Witness ==
    /\ BinningDone /\ result.w = 2 /\ Len0(bins.val) = 2
    /\ binned_ells.val[0] = Rat(1, 2) /\ binned_ells.val[1] = Rat(5, 2)

\* the case of C8: Mll is the identity and the last __call__ had a spectrum
\* of length lmax+1 and a width dividing lmax+1
C8_Case ==
    /\ Mll = Identity(lmax + 1)
    /\ result.op = "call" /\ Len0(result.arg) = lmax + 1
    /\ result.w >= 1 /\ (lmax + 1) % result.w = 0

\* the sum of C[l] over the multipoles l # 0 of block b
BlockSum(C, b, w) ==
    RSum([l \in 0..lmax |-> IF l \in Block(b, w) /\ l # 0 THEN C[l] ELSE RZero], 0, lmax)

\* C8 as stated: with Mll the identity, __call__ succeeds and returns
\* Cb_decoupled = Cb = bins . C_l in every bin.
C8_DecoupledIsBinned ==
    C8_Case =>
        /\ result.status = "ok"
        /\ \A b \in DOMAIN result.out :
              result.out[b] = RDiv(BlockSum(result.arg, b, result.w), RInt(result.w))

\* C8 amended: with Mll the identity and lperBin >= 2, __call__ succeeds and
\* Cb_decoupled[b] = Cb[b] in every bin b >= 1, while in the first bin
\* Cb_decoupled[0] = Cb[0] * lperBin/(lperBin-1), the mean of C_l over
\* 1..lperBin-1; with lperBin = 1 the first row of bins is zero, the binned
\* matrix is singular and __call__ fails in np.linalg.inv.
C8_DecoupledUpToFirstBin ==
    C8_Case =>
        IF result.w = 1 THEN result.status = "LinAlgError" /\ result.out = NoVec
        ELSE /\ result.status = "ok"
             /\ Len0(result.out) = (lmax + 1) \div result.w
             /\ \A b \in DOMAIN result.out :
                   result.out[b] =
                       RDiv(BlockSum(result.arg, b, result.w),
                            RInt(IF b = 0 THEN result.w - 1 ELSE result.w))

\* two bins of width two were decoupled with the identity, the first one
\* not empty
C8_Witness ==
    /\ C8_Case /\ result.status = "ok" /\ result.w = 2 /\ lmax = 3
    /\ result.out[0] # RZero /\ result.out[1] # RZero

----------------------------------------------------------------------------
(* Properties of binning_matrix, under SpecBinning.                         *)

\* the number of whole bins of width step that fit between 2 and lmax+1
LinearBins(step) == IF lmax + 1 < 2 THEN 0 ELSE (lmax + 1 - 2) \div step

\* C9: for type 'linear' and step >= 1 the call ends without error after at
\* most lmax+1 iterations, and returns, in ascending order, one row for
\* every k with 2+(k+1)*step <= lmax+1 and no other: row k is 1/step on
\* 2+k*step .. 2+(k+1)*step-1 and zero elsewhere.
C9_LinearRows ==
    (btype = "linear" /\ bstep >= 1) =>
        /\ bpc \in {"start", "loop", "done"}
        /\ bpc = "loop" => bii <= lmax + 1 /\ bl0 = 2 + bii * bstep /\ bl1 = bl0 + bstep
        /\ bpc = "done" =>
              /\ DOMAIN bbins = 0..(LinearBins(bstep) - 1)
              /\ \A k \in DOMAIN bbins :
                    /\ DOMAIN bbins[k] = 0..lmax
                    /\ 2 + (k + 1) * bstep <= lmax + 1
                    /\ \A l \in 0..lmax :
                          bbins[k][l] =
                              IF 2 + k * bstep <= l /\ l < 2 + (k + 1) * bstep
                              THEN Rat(1, bstep) ELSE RZero

\* a finished linear run with at least two rows and multipoles left over
C9_Witness ==
    /\ bpc = "done" /\ btype = "linear" /\ bstep >= 2
    /\ Len0(bbins) >= 2
    /\ (lmax + 1 - 2) % bstep # 0

====
